---- MODULE Spec2Model ----
(***************************************************************************)
(* The tool-call orchestration loop of examples/reasoning_function_calls   *)
(* .ipynb: the manual conversation loop (drive_conversation), the call to  *)
(* client.responses.create (run_turn) and invoke_functions_from_response   *)
(* (execute_pending_tool_calls).                                           *)
(***************************************************************************)
EXTENDS Integers, Sequences, FiniteSets, TLC

VARIABLES
    conversation,           \* the list `conversation` of the manual loop
    pc,                     \* the position of the single thread of control
    msgIdx,                 \* how many of user_messages the for loop has taken
    input,                  \* the `input` of the latest client.responses.create
    response,               \* response.output of the latest response
    i,                      \* position of the for loop of invoke_functions_from_response
    intermediate_messages,  \* the list invoke_functions_from_response builds
    error,                  \* the exception that left the loop, "none" if none
    nextId,                 \* the next item id the endpoint hands out
    toolLog,                \* history: start/end of every call of a registered tool
    turnCalls,              \* history: create calls made for the current user message
    loop,                   \* which of the notebook's two loops runs
    previous_response_id,   \* the previous_response_id of the latest create, 0 if none
    printed,                \* the output_text printed for the current user message
    seen,                   \* history: the reasoning items received so far
    received                \* history: the response.output of every create of
                            \* the loop for the current user message, in order

vars == <<conversation, pc, msgIdx, input, response, i, intermediate_messages,
          error, nextId, toolLog, turnCalls, loop, previous_response_id,
          printed, seen, received>>

-----------------------------------------------------------------------------
(* Bounds of the model *)

\* the most items one response.output carries
MaxOutput == 2

\* the most items the endpoint emits over a whole session
MaxItems == 3

\* the round limit drive_conversation takes in the specification; the
\* notebook's loops read no such value
max_rounds == 2

\* the two entries of user_messages
NumUserMessages == 2

-----------------------------------------------------------------------------
(* Items *)

NoOutput == [kind |-> "", name |-> "", n |-> 0]

\* the conversation_item built for a user message
UserMessage(k) ==
    [type |-> "message", role |-> "user", id |-> k, call_id |-> 0,
     name |-> "", arguments |-> "", output |-> NoOutput]

\* tool_mapping after both cells that fill it
tool_mapping == {"get_city_uuid", "web_search"}

\* a name the endpoint may ask for that tool_mapping does not hold
ToolNames == tool_mapping \cup {"mystery"}

\* what the arguments string of a function call can be: JSON that matches the
\* tool's parameters, JSON that does not, and text that is not JSON
ArgKinds == {"valid", "mismatch", "malformed"}

\* the shapes of the items of response.output, before ids are given
Kinds ==
    {[type |-> "reasoning", name |-> "", arguments |-> ""],
     [type |-> "message", name |-> "", arguments |-> ""]}
    \cup {[type |-> "function_call", name |-> nm, arguments |-> a] :
              nm \in tool_mapping, a \in ArgKinds}
    \cup {[type |-> "function_call", name |-> "mystery", arguments |-> "valid"]}

\* an item of response.output of shape k with item id n; a function call's
\* call_id is unique per request
OutputItem(k, n) ==
    [type |-> k.type,
     role |-> IF k.type = "message" THEN "assistant" ELSE "",
     id |-> n,
     call_id |-> IF k.type = "function_call" THEN n ELSE 0,
     name |-> k.name, arguments |-> k.arguments, output |-> NoOutput]

Min(a, b) == IF a < b THEN a ELSE b

\* every response.output the endpoint can return from the current state
Outputs ==
    UNION {{[p \in 1..m |-> OutputItem(ks[p], nextId + p - 1)] :
                ks \in [1..m -> Kinds]} :
           m \in 0..Min(MaxOutput, MaxItems - (nextId - 1))}

\* [rx.to_dict() for rx in response.output if rx.type == t]
OfType(out, t) == SelectSeq(out, LAMBDA rx : rx.type = t)

reasoning == OfType(response, "reasoning")
function_calls == OfType(response, "function_call")
messages == OfType(response, "message")

\* response.output_text: the texts of the message items of response.output,
\* joined in their order; the text of a message is told by its id
\* output_text giving the text of the first message item only
output_textFirstOnly == [k \in 1..Min(1, Len(messages)) |-> messages[k].id]

\* response.output_text: the texts of the message items of the response,
\* in order
output_text == [k \in 1..Len(messages) |-> messages[k].id]

\* the function_call_output dict appended for response_item
FunctionCallOutput(response_item, tool_output) ==
    [type |-> "function_call_output", role |-> "", id |-> 0,
     call_id |-> response_item.call_id,
     name |-> "", arguments |-> "", output |-> tool_output]

\* f"Error executing function call: {response_item.name}: {e}"
ErrorExecuting(response_item) ==
    [kind |-> "Error executing function call", name |-> response_item.name, n |-> 0]

\* f"ERROR - No tool registered for function call: {response_item.name}"
NoToolRegistered(response_item) ==
    [kind |-> "ERROR - No tool registered", name |-> response_item.name, n |-> 0]

\* the text a tool returns; n tells one call's text from another's
\* (get_city_uuid returns a fresh uuid, web_search what the search gave)
ToolText(response_item, n) ==
    [kind |-> "text", name |-> response_item.name, n |-> n]

\* target_tool = tool_mapping.get(response_item.name); if target_tool:
Registered(response_item) == response_item.name \in tool_mapping

\* json.loads(response_item.arguments) returns
Parses(response_item) == response_item.arguments # "malformed"

\* Interleaved with the function_call items left out of the history
InterleavedOutputsOnly(calls, outputs) == outputs

\* Interleaved as function_calls + function_outputs
InterleavedCallsThenOutputs(calls, outputs) == calls \o outputs

\* [val for pair in zip(function_calls, function_outputs) for val in pair]
Interleaved(calls, outputs) ==
    [k \in 1..(2 * Min(Len(calls), Len(outputs))) |->
        IF k % 2 = 1 THEN calls[(k + 1) \div 2] ELSE outputs[k \div 2]]

\* NoMoreFunctions breaking only once a message has arrived
NoMoreFunctionsAndMessage(calls) == Len(calls) = 0 /\ Len(messages) > 0

\* if len(function_calls) == 0: break
NoMoreFunctions(calls) == Len(calls) = 0

-----------------------------------------------------------------------------
(* The manual orchestration loop *)

Init ==
    /\ loop \in {"manual", "previous_response_id"}
    /\ previous_response_id = 0
    /\ conversation = <<>>
    /\ pc = IF loop = "manual" THEN "for_message" ELSE "create"
    /\ msgIdx = 0
    /\ input = <<>>
    /\ response = <<>>
    /\ i = 0
    /\ intermediate_messages = <<>>
    /\ error = "none"
    /\ nextId = 1
    /\ toolLog = <<>>
    /\ turnCalls = 0
    /\ printed = <<>>
    /\ seen = <<>>
    /\ received = <<>>

\* NextMessage with `conversation = []` inside the for loop
NextMessageFresh ==
    /\ pc = "for_message"
    /\ msgIdx < NumUserMessages
    /\ msgIdx' = msgIdx + 1
    /\ conversation' = <<UserMessage(msgIdx + 1)>>
    /\ turnCalls' = 0
    /\ printed' = <<>>
    /\ received' = <<>>
    /\ pc' = "create"
    /\ UNCHANGED <<input, response, i, intermediate_messages, error, nextId, toolLog,
                   loop, previous_response_id, seen>>

\* NextMessage with conversation.insert(0, conversation_item)
NextMessagePrepended ==
    /\ pc = "for_message"
    /\ msgIdx < NumUserMessages
    /\ msgIdx' = msgIdx + 1
    /\ conversation' = <<UserMessage(msgIdx + 1)>> \o conversation
    /\ turnCalls' = 0
    /\ printed' = <<>>
    /\ received' = <<>>
    /\ pc' = "create"
    /\ UNCHANGED <<input, response, i, intermediate_messages, error, nextId, toolLog,
                   loop, previous_response_id, seen>>

\* for message in user_messages: conversation.append(conversation_item)
NextMessage ==
    /\ pc = "for_message"
    /\ msgIdx < NumUserMessages
    /\ msgIdx' = msgIdx + 1
    /\ conversation' = Append(conversation, UserMessage(msgIdx + 1))
    /\ turnCalls' = 0
    /\ printed' = <<>>
    /\ received' = <<>>
    /\ pc' = "create"
    /\ UNCHANGED <<input, response, i, intermediate_messages, error, nextId, toolLog,
                   loop, previous_response_id, seen>>

\* the for loop is exhausted; the token total is printed
Finish ==
    /\ pc = "for_message"
    /\ msgIdx = NumUserMessages
    /\ pc' = "finished"
    /\ UNCHANGED <<conversation, msgIdx, input, response, i, intermediate_messages,
                   error, nextId, toolLog, turnCalls, loop, previous_response_id,
                   printed, seen, received>>

\* CallCreate submitting only the items added since the create before
CallCreateNewItemsOnly ==
    /\ pc = "create"
    /\ loop = "manual"
    /\ input' = SubSeq(conversation, Len(input) + 1, Len(conversation))
    /\ turnCalls' = turnCalls + 1
    /\ pc' = "awaiting"
    /\ UNCHANGED <<conversation, msgIdx, response, i, intermediate_messages,
                   error, nextId, toolLog, loop, previous_response_id,
                   printed, seen, received>>

\* client.responses.create(input=conversation, **MODEL_DEFAULTS) is called
CallCreate ==
    /\ pc = "create"
    /\ loop = "manual"
    /\ input' = conversation
    /\ turnCalls' = turnCalls + 1
    /\ pc' = "awaiting"
    /\ UNCHANGED <<conversation, msgIdx, response, i, intermediate_messages,
                   error, nextId, toolLog, loop, previous_response_id,
                   printed, seen, received>>

\* the call returns a response
CreateReturns ==
    /\ pc = "awaiting"
    /\ \E out \in Outputs :
          /\ response' = out
          /\ nextId' = nextId + Len(out)
          /\ seen' = seen \o OfType(out, "reasoning")
          /\ received' = Append(received, out)
    /\ IF loop = "manual"
          THEN /\ pc' = "got_response"
               /\ UNCHANGED <<i, intermediate_messages>>
          ELSE \* function_responses = invoke_functions_from_response(response)
               /\ pc' = "invoke"
               /\ i' = 1
               /\ intermediate_messages' = <<>>
    /\ UNCHANGED <<conversation, msgIdx, input, error, toolLog, turnCalls, loop,
                   previous_response_id, printed>>

\* CreateRaises with the exception caught, noted and the call made again
CreateRaisesRetried ==
    /\ pc = "awaiting"
    /\ \E e \in {"TransportError", "EndpointError"} : error' = e
    /\ pc' = "create"
    /\ UNCHANGED <<conversation, msgIdx, input, response, i, intermediate_messages,
                   nextId, toolLog, turnCalls, loop, previous_response_id,
                   printed, seen, received>>

\* CreateRaises with a note of the failure appended to the conversation
CreateRaisesRecorded ==
    /\ pc = "awaiting"
    /\ \E e \in {"TransportError", "EndpointError"} : error' = e
    /\ conversation' = Append(conversation, UserMessage(0))
    /\ pc' = "failed"
    /\ UNCHANGED <<msgIdx, input, response, i, intermediate_messages,
                   nextId, toolLog, turnCalls, loop, previous_response_id,
                   printed, seen, received>>

\* the call raises (connection error, timeout, error status); nothing
\* around it catches
CreateRaises ==
    /\ pc = "awaiting"
    /\ \E e \in {"TransportError", "EndpointError"} : error' = e
    /\ pc' = "failed"
    /\ UNCHANGED <<conversation, msgIdx, input, response, i, intermediate_messages,
                   nextId, toolLog, turnCalls, loop, previous_response_id,
                   printed, seen, received>>

\* ExtendReasoning without conversation.extend(reasoning)
ExtendReasoningDropped ==
    /\ pc = "got_response"
    /\ IF Len(function_calls) > 0
          THEN /\ pc' = "invoke"
               /\ i' = 1
               /\ intermediate_messages' = <<>>
          ELSE /\ pc' = "messages"
               /\ UNCHANGED <<i, intermediate_messages>>
    /\ UNCHANGED <<conversation, msgIdx, input, response, error, nextId, toolLog,
                   turnCalls, loop, previous_response_id,
                   printed, seen, received>>

\* ExtendReasoning keeping the reasoning items only when tools are asked for
ExtendReasoningToolRoundsOnly ==
    /\ pc = "got_response"
    /\ IF Len(function_calls) > 0
          THEN /\ conversation' = conversation \o reasoning
               /\ pc' = "invoke"
               /\ i' = 1
               /\ intermediate_messages' = <<>>
          ELSE /\ pc' = "messages"
               /\ UNCHANGED <<conversation, i, intermediate_messages>>
    /\ UNCHANGED <<msgIdx, input, response, error, nextId, toolLog, turnCalls, loop,
                   previous_response_id, printed, seen, received>>

\* if len(reasoning) > 0: conversation.extend(reasoning)
\* if len(function_calls) > 0: invoke_functions_from_response(response) is entered
ExtendReasoning ==
    /\ pc = "got_response"
    /\ conversation' = conversation \o reasoning
    /\ IF Len(function_calls) > 0
          THEN /\ pc' = "invoke"
               /\ i' = 1
               /\ intermediate_messages' = <<>>
          ELSE /\ pc' = "messages"
               /\ UNCHANGED <<i, intermediate_messages>>
    /\ UNCHANGED <<msgIdx, input, response, error, nextId, toolLog, turnCalls, loop,
                   previous_response_id,
                   printed, seen, received>>

-----------------------------------------------------------------------------
(* invoke_functions_from_response: one action per pass of its for loop *)

\* response_item is a reasoning item (printed) or a message (passed over)
InvokeSkip ==
    /\ pc = "invoke"
    /\ i <= Len(response)
    /\ response[i].type # "function_call"
    /\ i' = i + 1
    /\ UNCHANGED <<conversation, pc, msgIdx, input, response, intermediate_messages,
                   error, nextId, toolLog, turnCalls, loop, previous_response_id,
                   printed, seen, received>>

\* InvokeUnregistered with the append left inside the `if target_tool:` branch
InvokeUnregisteredSilent ==
    /\ pc = "invoke"
    /\ i <= Len(response)
    /\ response[i].type = "function_call"
    /\ ~Registered(response[i])
    /\ i' = i + 1
    /\ UNCHANGED <<conversation, pc, msgIdx, input, response, intermediate_messages,
                   error, nextId, toolLog, turnCalls, loop, previous_response_id,
                   printed, seen, received>>

\* InvokeUnregistered as the notebook's first, loop-free cell does it:
\* raise ValueError(f"No tool found for function call: ...")
InvokeUnregisteredRaises ==
    /\ pc = "invoke"
    /\ i <= Len(response)
    /\ response[i].type = "function_call"
    /\ ~Registered(response[i])
    /\ error' = "ValueError"
    /\ pc' = "failed"
    /\ UNCHANGED <<conversation, msgIdx, input, response, i, intermediate_messages,
                   nextId, toolLog, turnCalls, loop, previous_response_id,
                   printed, seen, received>>

\* tool_mapping.get gave None: the else branch
InvokeUnregistered ==
    /\ pc = "invoke"
    /\ i <= Len(response)
    /\ response[i].type = "function_call"
    /\ ~Registered(response[i])
    /\ intermediate_messages' =
          Append(intermediate_messages,
                 FunctionCallOutput(response[i], NoToolRegistered(response[i])))
    /\ i' = i + 1
    /\ UNCHANGED <<conversation, pc, msgIdx, input, response, error, nextId,
                   toolLog, turnCalls, loop, previous_response_id,
                   printed, seen, received>>

\* InvokeParseFails writing its message into the global conversation
InvokeParseFailsIntoConversation ==
    /\ pc = "invoke"
    /\ i <= Len(response)
    /\ response[i].type = "function_call"
    /\ Registered(response[i])
    /\ ~Parses(response[i])
    /\ intermediate_messages' =
          Append(intermediate_messages,
                 FunctionCallOutput(response[i], ErrorExecuting(response[i])))
    /\ conversation' =
          Append(conversation,
                 FunctionCallOutput(response[i], ErrorExecuting(response[i])))
    /\ i' = i + 1
    /\ UNCHANGED <<pc, msgIdx, input, response, error, nextId,
                   toolLog, turnCalls, loop, previous_response_id,
                   printed, seen, received>>

\* json.loads raises inside the try: the except branch, no tool is called
InvokeParseFails ==
    /\ pc = "invoke"
    /\ i <= Len(response)
    /\ response[i].type = "function_call"
    /\ Registered(response[i])
    /\ ~Parses(response[i])
    /\ intermediate_messages' =
          Append(intermediate_messages,
                 FunctionCallOutput(response[i], ErrorExecuting(response[i])))
    /\ i' = i + 1
    /\ UNCHANGED <<conversation, pc, msgIdx, input, response, error, nextId,
                   toolLog, turnCalls, loop, previous_response_id,
                   printed, seen, received>>

\* ToolStart handing the call to a worker and going on to the next item
ToolStartDetached ==
    /\ pc = "invoke"
    /\ i <= Len(response)
    /\ response[i].type = "function_call"
    /\ Registered(response[i])
    /\ Parses(response[i])
    /\ toolLog' = Append(toolLog, [ev |-> "start", call_id |-> response[i].call_id])
    /\ intermediate_messages' =
          Append(intermediate_messages,
                 FunctionCallOutput(response[i], ToolText(response[i], Len(toolLog))))
    /\ i' = i + 1
    /\ UNCHANGED <<conversation, pc, msgIdx, input, response, error, nextId, turnCalls,
                   loop, previous_response_id, printed, seen, received>>

\* target_tool(**arguments) is called
ToolStart ==
    /\ pc = "invoke"
    /\ i <= Len(response)
    /\ response[i].type = "function_call"
    /\ Registered(response[i])
    /\ Parses(response[i])
    /\ toolLog' = Append(toolLog, [ev |-> "start", call_id |-> response[i].call_id])
    /\ pc' = "tool_running"
    /\ UNCHANGED <<conversation, msgIdx, input, response, i, intermediate_messages,
                   error, nextId, turnCalls,
                   loop, previous_response_id,
                   printed, seen, received>>

\* ToolReturns with intermediate_messages.insert(0, ...) for append
ToolReturnsPrepended ==
    /\ pc = "tool_running"
    /\ response[i].arguments = "valid"
    /\ toolLog' = Append(toolLog, [ev |-> "returned", call_id |-> response[i].call_id])
    /\ intermediate_messages' =
          <<FunctionCallOutput(response[i], ToolText(response[i], Len(toolLog)))>>
              \o intermediate_messages
    /\ i' = i + 1
    /\ pc' = "invoke"
    /\ UNCHANGED <<conversation, msgIdx, input, response, error, nextId, turnCalls,
                   loop, previous_response_id,
                   printed, seen, received>>

\* the tool returns its text
ToolReturns ==
    /\ pc = "tool_running"
    /\ response[i].arguments = "valid"
    /\ toolLog' = Append(toolLog, [ev |-> "returned", call_id |-> response[i].call_id])
    /\ intermediate_messages' =
          Append(intermediate_messages,
                 FunctionCallOutput(response[i], ToolText(response[i], Len(toolLog))))
    /\ i' = i + 1
    /\ pc' = "invoke"
    /\ UNCHANGED <<conversation, msgIdx, input, response, error, nextId, turnCalls,
                   loop, previous_response_id,
                   printed, seen, received>>

\* ToolRaises without the try/except around the call
ToolRaisesPropagates ==
    /\ pc = "tool_running"
    /\ toolLog' = Append(toolLog, [ev |-> "raised", call_id |-> response[i].call_id])
    /\ error' = "ToolExecutionError"
    /\ pc' = "failed"
    /\ UNCHANGED <<conversation, msgIdx, input, response, i, intermediate_messages,
                   nextId, turnCalls, loop, previous_response_id,
                   printed, seen, received>>

\* ToolRaises with the failed call made again
ToolRaisesRetried ==
    /\ pc = "tool_running"
    /\ toolLog' = Append(toolLog, [ev |-> "raised", call_id |-> response[i].call_id])
    /\ pc' = "invoke"
    /\ UNCHANGED <<conversation, msgIdx, input, response, i, intermediate_messages,
                   error, nextId, turnCalls, loop, previous_response_id,
                   printed, seen, received>>

\* ToolRaises giving up on the rest of the response after the failure
ToolRaisesAborts ==
    /\ pc = "tool_running"
    /\ toolLog' = Append(toolLog, [ev |-> "raised", call_id |-> response[i].call_id])
    /\ intermediate_messages' =
          Append(intermediate_messages,
                 FunctionCallOutput(response[i], ErrorExecuting(response[i])))
    /\ i' = Len(response) + 1
    /\ pc' = "invoke"
    /\ UNCHANGED <<conversation, msgIdx, input, response, error, nextId, turnCalls,
                   loop, previous_response_id,
                   printed, seen, received>>

\* the call raises (a TypeError for arguments that do not match the
\* parameters, or whatever the tool raises): the except branch
ToolRaises ==
    /\ pc = "tool_running"
    /\ toolLog' = Append(toolLog, [ev |-> "raised", call_id |-> response[i].call_id])
    /\ intermediate_messages' =
          Append(intermediate_messages,
                 FunctionCallOutput(response[i], ErrorExecuting(response[i])))
    /\ i' = i + 1
    /\ pc' = "invoke"
    /\ UNCHANGED <<conversation, msgIdx, input, response, error, nextId, turnCalls,
                   loop, previous_response_id,
                   printed, seen, received>>

-----------------------------------------------------------------------------
(* back in the manual loop *)

\* invoke_functions_from_response returns function_outputs;
\* conversation.extend(interleaved)
ExtendInterleaved ==
    /\ pc = "invoke"
    /\ loop = "manual"
    /\ i > Len(response)
    /\ conversation' = conversation \o Interleaved(function_calls, intermediate_messages)
    /\ pc' = "messages"
    /\ UNCHANGED <<msgIdx, input, response, i, intermediate_messages, error,
                   nextId, toolLog, turnCalls, loop, previous_response_id,
                   printed, seen, received>>

\* ExtendMessages without conversation.extend(messages)
ExtendMessagesPrintOnly ==
    /\ pc = "messages"
    /\ printed' = printed \o output_text
    /\ pc' = "loop_test"
    /\ UNCHANGED <<conversation, msgIdx, input, response, i, intermediate_messages,
                   error, nextId, toolLog, turnCalls, loop, previous_response_id, seen, received>>

\* ExtendMessages taking the messages of a response only when it holds no
\* function call
ExtendMessagesFinalOnly ==
    /\ pc = "messages"
    /\ IF Len(function_calls) = 0
          THEN /\ printed' = printed \o output_text
               /\ conversation' = conversation \o messages
          ELSE UNCHANGED <<printed, conversation>>
    /\ pc' = "loop_test"
    /\ UNCHANGED <<msgIdx, input, response, i, intermediate_messages, error,
                   nextId, toolLog, turnCalls, loop, previous_response_id, seen, received>>

\* if len(messages) > 0: print(response.output_text);
\*                        conversation.extend(messages)
ExtendMessages ==
    /\ pc = "messages"
    /\ printed' = printed \o output_text
    /\ conversation' = conversation \o messages
    /\ pc' = "loop_test"
    /\ UNCHANGED <<msgIdx, input, response, i, intermediate_messages, error,
                   nextId, toolLog, turnCalls, loop, previous_response_id, seen, received>>

\* Break as `if len(function_calls) == 0 and len(messages) > 0: break`
BreakOnMessage ==
    /\ pc = "loop_test"
    /\ NoMoreFunctions(function_calls)
    /\ Len(messages) > 0
    /\ pc' = "for_message"
    /\ UNCHANGED <<conversation, msgIdx, input, response, i, intermediate_messages,
                   error, nextId, toolLog, turnCalls, loop, previous_response_id,
                   printed, seen, received>>

\* if len(function_calls) == 0: break
Break ==
    /\ pc = "loop_test"
    /\ NoMoreFunctions(function_calls)
    /\ pc' = "for_message"
    /\ UNCHANGED <<conversation, msgIdx, input, response, i, intermediate_messages,
                   error, nextId, toolLog, turnCalls, loop, previous_response_id,
                   printed, seen, received>>

\* Continue leaving the loop once the tools of the round have run
ContinueLeaves ==
    /\ pc = "loop_test"
    /\ ~NoMoreFunctions(function_calls)
    /\ pc' = "for_message"
    /\ UNCHANGED <<conversation, msgIdx, input, response, i, intermediate_messages,
                   error, nextId, toolLog, turnCalls, loop, previous_response_id,
                   printed, seen, received>>

\* otherwise while True goes round again
Continue ==
    /\ pc = "loop_test"
    /\ ~NoMoreFunctions(function_calls)
    /\ pc' = "create"
    /\ UNCHANGED <<conversation, msgIdx, input, response, i, intermediate_messages,
                   error, nextId, toolLog, turnCalls, loop, previous_response_id,
                   printed, seen, received>>

-----------------------------------------------------------------------------
(* The loop that leaves the history to the endpoint (previous_response_id) *)

\* the question the first create of this loop carries
initial_question == <<UserMessage(1)>>

\* client.responses.create(input=initial_question, ...) before the loop, and
\* client.responses.create(input=function_responses,
\*                         previous_response_id=response.id, ...) inside it;
\* the id of a response is the number of the call it answers
PrevCallCreate ==
    /\ pc = "create"
    /\ loop = "previous_response_id"
    /\ input' = IF turnCalls = 0 THEN initial_question ELSE intermediate_messages
    /\ previous_response_id' = turnCalls
    /\ turnCalls' = turnCalls + 1
    /\ pc' = "awaiting"
    /\ UNCHANGED <<conversation, msgIdx, response, i, intermediate_messages,
                   error, nextId, toolLog, loop, printed, seen, received>>

\* PrevBreak leaving the loop as soon as the response carries a message
PrevBreakOnMessage ==
    /\ pc = "invoke"
    /\ loop = "previous_response_id"
    /\ i > Len(response)
    /\ Len(messages) > 0
    /\ printed' = printed \o output_text
    /\ pc' = "finished"
    /\ UNCHANGED <<conversation, msgIdx, input, response, i, intermediate_messages,
                   error, nextId, toolLog, turnCalls, loop, previous_response_id,
                   seen, received>>

\* if len(function_responses) == 0: print(response.output_text); break
PrevBreak ==
    /\ pc = "invoke"
    /\ loop = "previous_response_id"
    /\ i > Len(response)
    /\ Len(intermediate_messages) = 0
    /\ printed' = printed \o output_text
    /\ pc' = "finished"
    /\ UNCHANGED <<conversation, msgIdx, input, response, i, intermediate_messages,
                   error, nextId, toolLog, turnCalls, loop, previous_response_id, seen, received>>

\* else: the next create is made
PrevContinue ==
    /\ pc = "invoke"
    /\ loop = "previous_response_id"
    /\ i > Len(response)
    /\ Len(intermediate_messages) # 0
    /\ pc' = "create"
    /\ UNCHANGED <<conversation, msgIdx, input, response, i, intermediate_messages,
                   error, nextId, toolLog, turnCalls, loop, previous_response_id,
                   printed, seen, received>>

Next ==
    \/ NextMessage
    \/ Finish
    \/ CallCreate
    \/ CreateReturns
    \/ CreateRaises
    \/ ExtendReasoning
    \/ InvokeSkip
    \/ InvokeUnregistered
    \/ InvokeParseFails
    \/ ToolStart
    \/ ToolReturns
    \/ ToolRaises
    \/ ExtendInterleaved
    \/ ExtendMessages
    \/ Break
    \/ Continue
    \/ PrevCallCreate
    \/ PrevBreak
    \/ PrevContinue

Spec == Init /\ [][Next]_vars

\* the notebook runs as one thread that executes statement after statement:
\* while a statement is left to execute, one is executed; a create call or
\* a tool call that has been made comes back (by returning or by raising)
LiveSpec == Init /\ [][Next]_vars /\ WF_vars(Next)

-----------------------------------------------------------------------------
(* Properties *)

\* the items appended to the conversation since the latest create was called
appended == SubSeq(conversation, Len(input) + 1, Len(conversation))

\* the requests of `calls` and the results of `results` pair up one-to-one
\* by call_id
PairUp(calls, results) ==
    /\ Len(results) = Len(calls)
    /\ \A k \in 1..Len(calls) :
          Cardinality({j \in 1..Len(results) :
                          results[j].call_id = calls[k].call_id}) = 1
    /\ \A j \in 1..Len(results) :
          \E k \in 1..Len(calls) : calls[k].call_id = results[j].call_id

\* C1: once the tool part of a round is over, the function_call_output items
\* the round appended to the conversation (in the previous_response_id loop:
\* the function_responses it is about to submit) are as many as the
\* function_call items of the round's response, and their call_ids pair up
\* one-to-one with those of the requests.
C1_ResultsPairWithRequests ==
    /\ (loop = "manual" /\ pc \in {"messages", "loop_test"})
          => PairUp(function_calls, OfType(appended, "function_call_output"))
    /\ (loop = "previous_response_id" /\ pc = "invoke" /\ i > Len(response))
          => PairUp(function_calls, intermediate_messages)

\* a round of the manual loop with two requests, one of them for an
\* unregistered tool, has appended its results
C1_Witness ==
    /\ loop = "manual"
    /\ pc = "loop_test"
    /\ Len(function_calls) = 2
    /\ \E k \in 1..2 : ~Registered(function_calls[k])
    /\ Len(OfType(appended, "function_call_output")) = 2

\* C2: drive_conversation makes at most max_rounds create calls for one
\* user message.
C2_AtMostMaxRounds == turnCalls <= max_rounds

\* the response of the current round carries no function call and the round
\* is being worked off
TerminalRound ==
    /\ Len(function_calls) = 0
    /\ \/ loop = "manual" /\ pc \in {"got_response", "messages", "loop_test"}
       \/ loop = "previous_response_id" /\ pc = "invoke"

\* C3: from a response without function calls on, the loop makes no create
\* call and starts no tool, and the loop test of that very round leaves the
\* loop, whatever else the response holds.
C3_NoRequestsEndsLoop ==
    [][TerminalRound =>
          /\ turnCalls' = turnCalls
          /\ toolLog' = toolLog
          /\ pc' \in {"messages", "loop_test", "invoke", "for_message", "finished"}
          /\ (pc = "loop_test" => pc' = "for_message")
          /\ (pc = "invoke" /\ i > Len(response) => pc' = "finished")]_vars

\* the loop for the first user message was left on an empty response that
\* came after a tool round
C3_Witness ==
    /\ loop = "manual"
    /\ pc = "for_message"
    /\ msgIdx = 1
    /\ turnCalls = 2
    /\ response = <<>>
    /\ toolLog # <<>>


\* invoke_functions_from_response is running
InInvoke == pc \in {"invoke", "tool_running"}

\* the function calls its for loop has dealt with so far
handled == OfType(SubSeq(response, 1, i - 1), "function_call")

\* message k of intermediate_messages is the result of request rq and
\* carries a diagnostic of the given kind
DiagnosticFor(k, rq, kind) ==
    /\ k <= Len(intermediate_messages)
    /\ intermediate_messages[k].type = "function_call_output"
    /\ intermediate_messages[k].call_id = rq.call_id
    /\ intermediate_messages[k].output.kind = kind

\* the conversation holds, after request rq, a result with rq's call_id
\* and a diagnostic of the given kind
FedBack(conv, rq, kind) ==
    \E a, b \in 1..Len(conv) :
        /\ a < b
        /\ conv[a] = rq
        /\ conv[b].type = "function_call_output"
        /\ conv[b].call_id = rq.call_id
        /\ conv[b].output.kind = kind

\* the round being closed asked for at least one tool
ToolRoundCloses ==
    \/ loop = "manual" /\ pc = "loop_test" /\ Len(function_calls) > 0
    \/ /\ loop = "previous_response_id" /\ pc = "invoke"
       /\ i > Len(response) /\ Len(function_calls) > 0

\* the steps C4 allows: the pass over an unregistered request goes on to the
\* next item without an error, and a round that held one goes on to create
C4_Step ==
    /\ (/\ pc = "invoke"
        /\ i <= Len(response)
        /\ response[i].type = "function_call"
        /\ ~Registered(response[i]))
          => (pc' = "invoke" /\ i' = i + 1 /\ error' = "none")
    /\ (/\ ToolRoundCloses
        /\ \E k \in 1..Len(function_calls) : ~Registered(function_calls[k]))
          => pc' = "create"

\* C4: a function call that names a tool tool_mapping does not hold makes
\* invoke_functions_from_response neither fail nor call a tool: its result
\* carries the request's call_id and the "ERROR - No tool registered"
\* diagnostic, the loop goes on to the next create, and the conversation
\* that create submits holds the diagnostic.
C4_UnregisteredToolIsReported ==
    /\ [](InInvoke =>
            \A k \in 1..Len(handled) :
                ~Registered(handled[k]) =>
                    /\ DiagnosticFor(k, handled[k], "ERROR - No tool registered")
                    /\ \A e \in 1..Len(toolLog) :
                          toolLog[e].call_id # handled[k].call_id)
    /\ []((loop = "manual" /\ pc = "awaiting") =>
            \A a \in 1..Len(input) :
                (input[a].type = "function_call" /\ ~Registered(input[a]))
                    => FedBack(input, input[a], "ERROR - No tool registered"))
    /\ [][C4_Step]_vars

\* the second create of a message submits the diagnostic of an unregistered
\* tool, and no tool was called
C4_Witness ==
    /\ loop = "manual"
    /\ pc = "awaiting"
    /\ turnCalls = 2
    /\ toolLog = <<>>
    /\ \E a \in 1..Len(input) :
          /\ input[a].type = "function_call_output"
          /\ input[a].output.kind = "ERROR - No tool registered"

\* the call for request rq failed: its arguments are not JSON, or do not
\* match the tool's parameters, or the tool raised
ExecutionFailed(rq) ==
    \/ ~Parses(rq)
    \/ rq.arguments = "mismatch"
    \/ \E e \in 1..Len(toolLog) :
          toolLog[e].call_id = rq.call_id /\ toolLog[e].ev = "raised"

\* the steps C5 allows: the pass over a request for a registered tool stays
\* inside invoke_functions_from_response without an error, and a round that
\* held a failed call goes on to create
C5_Step ==
    /\ (\/ pc = "tool_running"
        \/ /\ pc = "invoke"
           /\ i <= Len(response)
           /\ response[i].type = "function_call"
           /\ Registered(response[i]))
          => (pc' \in {"invoke", "tool_running"} /\ error' = "none")
    /\ (/\ ToolRoundCloses
        /\ \E k \in 1..Len(function_calls) :
              Registered(function_calls[k]) /\ ExecutionFailed(function_calls[k]))
          => pc' = "create"

\* C5: when the call of a registered tool fails (arguments that do not parse
\* or do not match, or the tool raising), invoke_functions_from_response
\* does not fail: the request's result carries its call_id and the "Error
\* executing function call" diagnostic, and the loop goes on to the next
\* create with the diagnostic in the conversation.
C5_ToolFailureIsReported ==
    /\ [](InInvoke =>
            \A k \in 1..Len(handled) :
                (Registered(handled[k]) /\ ExecutionFailed(handled[k]))
                    => DiagnosticFor(k, handled[k], "Error executing function call"))
    /\ []((loop = "manual" /\ pc = "awaiting") =>
            \A a \in 1..Len(input) :
                (/\ input[a].type = "function_call"
                 /\ Registered(input[a]) /\ ExecutionFailed(input[a]))
                    => FedBack(input, input[a], "Error executing function call"))
    /\ [][C5_Step]_vars

\* the second create of a message submits two execution diagnostics, one
\* for a tool that raised on matching arguments and one for arguments that
\* did not parse
C5_Witness ==
    /\ loop = "manual"
    /\ pc = "awaiting"
    /\ turnCalls = 2
    /\ Len(toolLog) = 2
    /\ toolLog[2].ev = "raised"
    /\ \E a, b \in 1..Len(input) :
          /\ input[a].type = "function_call" /\ input[a].arguments = "valid"
          /\ input[a].call_id = toolLog[2].call_id
          /\ input[b].type = "function_call" /\ input[b].arguments = "malformed"
    /\ Len(SelectSeq(input, LAMBDA x : x.output.kind = "Error executing function call")) = 2

\* the steps C6 allows: none out of "failed"; an error is set only by a
\* create that fails, and that step ends in "failed"
C6_Step ==
    /\ pc # "failed"
    /\ (error' # error) => (pc = "awaiting" /\ pc' = "failed")
    /\ (pc' = "failed") => (error' # "none")

\* C6: when create raises, the exception leaves the loop: the only step
\* that sets an error is a failing create, it ends in "failed" with the
\* TransportError or EndpointError kept, and from there nothing happens
\* any more: no create, no tool call, no append.
C6_CreateFailureSurfaces ==
    /\ [](pc = "failed" => error \in {"TransportError", "EndpointError"})
    /\ [][C6_Step]_vars

\* the second create of a message failed after a tool had run
C6_Witness ==
    /\ pc = "failed"
    /\ error = "TransportError"
    /\ turnCalls = 2
    /\ toolLog # <<>>
    /\ loop = "manual"

\* every function_call of conv has exactly one function_call_output with its
\* call_id, and every function_call_output comes after a function_call
\* with its call_id
WellPaired(conv) ==
    /\ \A a \in 1..Len(conv) :
          conv[a].type = "function_call" =>
              Cardinality({b \in 1..Len(conv) :
                              /\ conv[b].type = "function_call_output"
                              /\ conv[b].call_id = conv[a].call_id}) = 1
    /\ \A b \in 1..Len(conv) :
          conv[b].type = "function_call_output" =>
              \E a \in 1..(b - 1) :
                  /\ conv[a].type = "function_call"
                  /\ conv[a].call_id = conv[b].call_id

\* C7: every conversation the manual loop submits to create, in any round
\* and for any user message, pairs each function_call with exactly one
\* function_call_output of the same call_id, and each function_call_output
\* with an earlier function_call.
C7_SubmittedConversationIsPaired ==
    (loop = "manual" /\ pc = "awaiting") => WellPaired(input)

\* the first create for the second user message submits a conversation
\* with two function calls
C7_Witness ==
    /\ loop = "manual"
    /\ pc = "awaiting"
    /\ msgIdx = 2
    /\ Len(OfType(input, "function_call")) = 2

\* the manual loop is working off a response
InRound ==
    /\ loop = "manual"
    /\ pc \in {"got_response", "invoke", "tool_running", "messages", "loop_test"}

\* C8: among the items a round appends to the conversation, every reasoning
\* item comes before every function_call_output, and once a
\* function_call_output is appended all reasoning items of the round's
\* response are there.
C8_ReasoningBeforeResults ==
    InRound =>
        /\ \A a, b \in 1..Len(appended) :
              (/\ appended[a].type = "reasoning"
               /\ appended[b].type = "function_call_output") => a < b
        /\ OfType(appended, "function_call_output") # <<>>
              => OfType(appended, "reasoning") = reasoning

\* a response that lists its reasoning item after its function call has
\* been appended, results included
C8_Witness ==
    /\ InRound
    /\ pc = "loop_test"
    /\ Len(response) = 2
    /\ response[1].type = "function_call"
    /\ response[2].type = "reasoning"
    /\ Len(appended) = 3
    /\ appended[1].type = "reasoning"

\* C9: every step leaves the conversation as it was or appends to it: the
\* old value is a prefix of the new one.
C9_ConversationAppendOnly ==
    [][/\ Len(conversation) <= Len(conversation')
       /\ SubSeq(conversation', 1, Len(conversation)) = conversation]_vars

\* both user messages are worked off and the conversation holds them and
\* three items of the endpoint
C9_Witness ==
    /\ loop = "manual"
    /\ pc = "finished"
    /\ Len(conversation) >= 5
    /\ Len(OfType(conversation, "function_call_output")) >= 1
    /\ conversation[1] = UserMessage(1)

\* the function calls of the current response whose tool has been called:
\* those the for loop has reached that are registered and whose arguments
\* parse
due ==
    SelectSeq(SubSeq(response, 1, IF pc = "tool_running" THEN i ELSE i - 1),
              LAMBDA rx : rx.type = "function_call" /\ Registered(rx) /\ Parses(rx))

\* the tool calls started for requests of the current response
roundStarts ==
    SelectSeq(toolLog,
              LAMBDA e : /\ e.ev = "start"
                         /\ \E k \in 1..Len(response) :
                               /\ response[k].type = "function_call"
                               /\ response[k].call_id = e.call_id)

\* C10: invoke_functions_from_response calls the tools one at a time and in
\* the order of the function calls in response.output: a call that started
\* has ended before the next one starts, the calls started so far are
\* those of the requests reached so far, in their order, and
\* intermediate_messages holds the results of the requests dealt with, in
\* their order.
C10_ToolsRunInRequestOrder ==
    /\ \A k \in 1..Len(toolLog) :
          IF toolLog[k].ev = "start"
             THEN IF k = Len(toolLog)
                     THEN pc = "tool_running"
                     ELSE /\ toolLog[k + 1].ev # "start"
                          /\ toolLog[k + 1].call_id = toolLog[k].call_id
             ELSE /\ k > 1
                  /\ toolLog[k - 1].ev = "start"
                  /\ toolLog[k - 1].call_id = toolLog[k].call_id
    /\ InInvoke =>
          /\ Len(roundStarts) = Len(due)
          /\ \A k \in 1..Len(due) : roundStarts[k].call_id = due[k].call_id
          /\ Len(intermediate_messages) = Len(handled)
          /\ \A k \in 1..Len(handled) :
                intermediate_messages[k].call_id = handled[k].call_id

\* invoke_functions_from_response is about to return after two tool calls,
\* the first of which returned and the second of which raised
C10_Witness ==
    /\ pc = "invoke"
    /\ i > Len(response)
    /\ Len(due) = 2
    /\ Len(toolLog) = 4
    /\ toolLog[2].ev = "returned"
    /\ toolLog[4].ev = "raised"
    /\ Len(intermediate_messages) = 2

\* the state of the specification's state machine the loop is in, for the
\* user message being worked off: ExecutingTools from the arrival of a
\* response with function calls until the loop test has sent the loop back
\* to create, Done once the loop is left, AwaitingEndpoint otherwise (an
\* exception of create leaves the machine where it was)
ControlState ==
    IF pc = "finished" \/ (pc = "for_message" /\ msgIdx > 0)
       THEN "Done"
    ELSE IF /\ Len(function_calls) > 0
            /\ \/ pc \in {"got_response", "invoke", "tool_running", "messages", "loop_test"}
       THEN "ExecutingTools"
    ELSE "AwaitingEndpoint"

\* C11: for one user message the control state starts in AwaitingEndpoint
\* and moves only AwaitingEndpoint -> ExecutingTools, ExecutingTools ->
\* AwaitingEndpoint and AwaitingEndpoint -> Done; in particular never
\* ExecutingTools -> Done and never out of Done (the for loop taking the
\* next user message starts the machine anew).
C11_ControlStateTransitions ==
    /\ ControlState = "AwaitingEndpoint"
    /\ [][msgIdx' = msgIdx =>
            \/ ControlState' = ControlState
            \/ <<ControlState, ControlState'>> \in
                  {<<"AwaitingEndpoint", "ExecutingTools">>,
                   <<"ExecutingTools", "AwaitingEndpoint">>,
                   <<"AwaitingEndpoint", "Done">>}]_vars

\* the previous_response_id loop is left after two tool rounds
C11_Witness ==
    /\ loop = "previous_response_id"
    /\ pc = "finished"
    /\ ControlState = "Done"
    /\ turnCalls = 3
    /\ Len(toolLog) >= 2

\* the tool calls that have started and not ended
running ==
    {k \in 1..Len(toolLog) :
        /\ toolLog[k].ev = "start"
        /\ \A m \in (k + 1)..Len(toolLog) : toolLog[m].call_id # toolLog[k].call_id}

\* C12: at most one tool call runs at a time; while a create call is
\* outstanding no tool call runs, and every function call of the response
\* before it has its result in the input submitted (manual loop: in the
\* conversation; previous_response_id loop: in function_responses).
C12_OneThreadOfControl ==
    /\ Cardinality(running) <= 1
    /\ (running # {}) <=> (pc = "tool_running")
    /\ pc = "awaiting" =>
          /\ running = {}
          /\ turnCalls > 1 =>
                \A k \in 1..Len(function_calls) :
                    \E a \in 1..Len(input) :
                        /\ input[a].type = "function_call_output"
                        /\ input[a].call_id = function_calls[k].call_id

\* the second create of a message is outstanding after a round in which
\* two tools ran
C12_Witness ==
    /\ loop = "manual"
    /\ pc = "awaiting"
    /\ turnCalls = 2
    /\ Len(toolLog) = 4
    /\ Len(function_calls) = 2

\* the first response for the first user message is worked off or done
\* with, and it holds no function call and one message
FirstRoundIsAnswer ==
    /\ loop = "manual"
    /\ msgIdx = 1
    /\ turnCalls = 1
    /\ pc \in {"loop_test", "for_message"}
    /\ Len(function_calls) = 0
    /\ Len(messages) = 1

\* C13: when the first response holds no function call and one message,
\* the loop is left at the loop test of that first round, after one create
\* and no tool call; the text printed is that message's text, and the
\* conversation is the user message, the response's reasoning items and the
\* message, which comes last.
C13_SingleRoundAnswer ==
    /\ [](FirstRoundIsAnswer =>
            /\ toolLog = <<>>
            /\ printed = <<messages[1].id>>
            /\ conversation = <<UserMessage(1)>> \o reasoning \o messages)
    /\ []((/\ loop = "previous_response_id" /\ pc = "finished"
           /\ turnCalls = 1 /\ Len(messages) = 1) =>
            /\ toolLog = <<>>
            /\ printed = <<messages[1].id>>)
    /\ [][(FirstRoundIsAnswer /\ pc = "loop_test") => pc' = "for_message"]_vars

\* the loop for the first user message is left after one round whose
\* response listed its message before a reasoning item
C13_Witness ==
    /\ FirstRoundIsAnswer
    /\ pc = "for_message"
    /\ Len(response) = 2
    /\ response[1].type = "message"
    /\ response[2].type = "reasoning"
    /\ Len(conversation) = 3

\* the loop for the first user message is left after two rounds in which
\* the endpoint sent two items in all, the second a message, and one tool
\* ran and returned: round 1 was a single function call of a registered tool
ToolThenAnswer ==
    /\ loop = "manual"
    /\ msgIdx = 1
    /\ pc = "for_message"
    /\ turnCalls = 2
    /\ nextId = 3
    /\ Len(response) = 1
    /\ response[1].type = "message"
    /\ Len(toolLog) = 2
    /\ toolLog[2].ev = "returned"

\* C14: after a round with one function call of a registered tool that
\* returned and a second round with one message, the conversation is the
\* user message, the function call, its function_call_output with the
\* tool's text and the message, and the second create was given the first
\* three of them.
C14_ToolRoundThenAnswer ==
    ToolThenAnswer =>
        /\ Len(conversation) = 4
        /\ conversation[1] = UserMessage(1)
        /\ conversation[2].type = "function_call"
        /\ conversation[2].id = 1
        /\ Registered(conversation[2])
        /\ conversation[3].type = "function_call_output"
        /\ conversation[3].call_id = conversation[2].call_id
        /\ conversation[3].output.kind = "text"
        /\ conversation[3].output.name = conversation[2].name
        /\ conversation[4] = response[1]
        /\ input = SubSeq(conversation, 1, 3)

\* such a run, with get_city_uuid as the tool
C14_Witness ==
    /\ ToolThenAnswer
    /\ Len(conversation) = 4
    /\ conversation[2].name = "get_city_uuid"
    /\ conversation[3].output.kind = "text"

\* create is outstanding, or invoke_functions_from_response has not yet
\* returned
InsideOperation ==
    \/ pc = "awaiting"
    \/ pc = "tool_running"
    \/ pc = "invoke" /\ i <= Len(response)

\* C15: no step taken while create is outstanding or inside
\* invoke_functions_from_response changes the conversation; the
\* conversation changes only in steps of the loop itself: taking a user
\* message, and the three extends that follow the return of create and of
\* invoke_functions_from_response. (tool_mapping is a fixed set here.)
C15_OperationsLeaveConversation ==
    [][/\ InsideOperation => conversation' = conversation
       /\ conversation' # conversation =>
             \/ pc \in {"for_message", "got_response", "messages"}
             \/ pc = "invoke" /\ i > Len(response) /\ loop = "manual"]_vars

\* invoke_functions_from_response is about to return two results, one of
\* them for arguments that did not parse, and the conversation is still
\* the one that was submitted
C15_Witness ==
    /\ loop = "manual"
    /\ pc = "invoke"
    /\ i > Len(response)
    /\ Len(intermediate_messages) = 2
    /\ \E k \in 1..2 : ~Parses(function_calls[k])
    /\ conversation = input

\* C16: the reasoning items of the conversation are the reasoning items
\* received so far, unchanged and in the order received, as soon as the
\* extend that follows a response is done; so every conversation submitted
\* holds all reasoning items received before, those of final rounds
\* included.
C16_ReasoningIsKept ==
    loop = "manual" =>
        /\ pc # "got_response" => OfType(conversation, "reasoning") = seen
        /\ pc = "got_response"
              => OfType(conversation, "reasoning") \o reasoning = seen
        /\ pc = "awaiting" => OfType(input, "reasoning") = seen

\* the first create for the second user message submits the reasoning
\* items of a tool round and of the final round of the first message
C16_Witness ==
    /\ loop = "manual"
    /\ pc = "awaiting"
    /\ msgIdx = 2
    /\ Len(seen) = 2
    /\ Len(input) = 6
    /\ input[2].type = "reasoning"
    /\ input[5].type = "reasoning"

\* C17: in the conversation every function_call is directly followed by
\* the function_call_output with its call_id, and the function calls and
\* outputs a round appended are request 1, result 1, request 2, result 2,
\* ... in the order of the requests in the response.
C17_ResultFollowsRequest ==
    /\ \A a \in 1..Len(conversation) :
          conversation[a].type = "function_call" =>
              /\ a < Len(conversation)
              /\ conversation[a + 1].type = "function_call_output"
              /\ conversation[a + 1].call_id = conversation[a].call_id
    /\ (loop = "manual" /\ pc \in {"messages", "loop_test"}) =>
          /\ OfType(appended, "function_call") = function_calls
          /\ Len(OfType(appended, "function_call_output")) = Len(function_calls)

\* a round with two function calls has appended request, result, request,
\* result
C17_Witness ==
    /\ loop = "manual"
    /\ pc = "messages"
    /\ Len(appended) = 4
    /\ appended[1].type = "function_call"
    /\ appended[2].type = "function_call_output"
    /\ appended[3].type = "function_call"
    /\ appended[4].type = "function_call_output"
    /\ appended[1].call_id # appended[3].call_id

\* C18: a round whose response holds function calls appends no message
\* item to the conversation.
C18_MessagesOnlyFromFinalRound ==
    (InRound /\ Len(function_calls) > 0) => OfType(appended, "message") = <<>>

\* the function_call and function_call_output items among those appended
\* since the latest create
appendedPairs ==
    SelectSeq(appended,
              LAMBDA x : x.type \in {"function_call", "function_call_output"})

\* C18, amended: every round appends the message items of its response,
\* a round with function calls too; what a round has appended at its loop
\* test is the response's reasoning items, then its function calls each
\* with its output, then its message items, and nothing else.
C18_RoundAppendsMessagesLast ==
    (loop = "manual" /\ pc = "loop_test") =>
        /\ appended = reasoning \o appendedPairs \o messages
        /\ OfType(appendedPairs, "function_call") = function_calls
        /\ Len(appendedPairs) = 2 * Len(function_calls)

\* a round whose response holds a message and a function call has
\* appended the call, its output and then the message
C18_Witness ==
    /\ loop = "manual"
    /\ pc = "loop_test"
    /\ Len(function_calls) = 1
    /\ Len(messages) = 1
    /\ response[1].type = "message"
    /\ Len(appended) = 3
    /\ appended[3] = response[1]

\* the loop for the current user message has been left normally
Returned ==
    \/ loop = "manual" /\ msgIdx >= 1 /\ pc \in {"for_message", "finished"}
    \/ loop = "previous_response_id" /\ pc = "finished"

\* the texts of the assistant messages among `items`, in order
AssistantText(items) ==
    [k \in 1..Len(OfType(items, "message")) |-> OfType(items, "message")[k].id]

\* the items the conversation holds after the current user message
sinceUserMessage ==
    LET at == CHOOSE a \in 1..Len(conversation) :
                  conversation[a] = UserMessage(msgIdx)
    IN  SubSeq(conversation, at + 1, Len(conversation))

\* C19: when the loop for a user message has been left, the text it has
\* put out is the text of the message items of the last response only.
C19_TextOfTerminatingRoundOnly ==
    Returned => printed = AssistantText(response)

\* a terminating round puts out no further text and leaves the loop
C19_Step ==
    /\ (loop = "manual" /\ pc = "loop_test" /\ Len(function_calls) = 0) =>
           pc' = "for_message" /\ printed' = printed
    /\ (loop = "previous_response_id" /\ pc = "invoke" /\ i > Len(response)
           /\ Len(function_calls) = 0) =>
           pc' = "finished" /\ printed' = AssistantText(response)

\* C19, amended: the manual loop puts out the text of the message items of
\* every response of the loop, tool rounds included, in order, ending with
\* those of the terminating response; the previous_response_id loop puts
\* out the text of the terminating response only.  With no message item
\* the text is empty, and a response without function calls still ends the
\* loop.
C19_TextOfEveryRound ==
    /\ [](Returned =>
            /\ loop = "manual" =>
                  /\ printed = AssistantText(sinceUserMessage)
                  /\ SubSeq(printed, Len(printed) - Len(messages) + 1,
                            Len(printed)) = AssistantText(response)
            /\ loop = "previous_response_id" =>
                  printed = AssistantText(response))
    /\ [][C19_Step]_vars

\* the manual loop has been left with the text of two responses put out:
\* one of a tool round and the one of the terminating round
C19_Witness ==
    /\ loop = "manual"
    /\ pc = "for_message"
    /\ msgIdx = 1
    /\ turnCalls = 2
    /\ Len(messages) = 1
    /\ Len(printed) = 2
    /\ printed[2] = messages[1].id

\* the events of toolLog about the call with this call_id
EventsOf(call_id) == SelectSeq(toolLog, LAMBDA e : e.call_id = call_id)

\* invoke_functions_from_response has gone through the whole response
RoundHandled == pc = "invoke" /\ i > Len(response)

\* C20: when a response has been gone through, every function call of it
\* has its own output, in the order of the calls, and what happened to a
\* call depends on that call alone: a call to a registered tool with
\* arguments that parse was started exactly once and its output is the
\* tool's text if the tool returned and the execution diagnostic if it
\* raised; a call to an unregistered tool got the no-tool diagnostic;
\* whatever the other calls of the response are and however they ended.
C20_FailuresAreIsolated ==
    RoundHandled =>
        /\ Len(intermediate_messages) = Len(function_calls)
        /\ \A k \in 1..Len(function_calls) :
              LET call == function_calls[k]
                  out  == intermediate_messages[k]
                  evs  == EventsOf(call.call_id)
              IN  /\ out.type = "function_call_output"
                  /\ out.call_id = call.call_id
                  /\ IF ~Registered(call)
                        THEN evs = <<>> /\ out.output = NoToolRegistered(call)
                        ELSE IF ~Parses(call)
                        THEN evs = <<>> /\ out.output = ErrorExecuting(call)
                        ELSE /\ Len(evs) = 2
                             /\ evs[1].ev = "start"
                             /\ IF evs[2].ev = "returned"
                                   THEN out.output.kind = "text"
                                   ELSE /\ evs[2].ev = "raised"
                                        /\ out.output = ErrorExecuting(call)

\* a response with two function calls has been gone through: the tool of
\* the first raised, the tool of the second ran after it and returned
C20_Witness ==
    /\ RoundHandled
    /\ Len(function_calls) = 2
    /\ Len(intermediate_messages) = 2
    /\ intermediate_messages[1].output = ErrorExecuting(function_calls[1])
    /\ intermediate_messages[2].output.kind = "text"
    /\ Len(toolLog) = 4
    /\ toolLog[2].ev = "raised"
    /\ toolLog[4].ev = "returned"

\* how many times a registered tool was called for the request `call_id`
Invocations(call_id) ==
    Len(SelectSeq(toolLog, LAMBDA e : e.ev = "start" /\ e.call_id = call_id))

\* how many invocations a request is due once it has been handled
DueInvocations(call) == IF Registered(call) /\ Parses(call) THEN 1 ELSE 0

\* the items of the current response the for loop of
\* invoke_functions_from_response has taken up
takenUp ==
    IF pc = "tool_running" THEN SubSeq(response, 1, i)
    ELSE IF pc = "invoke" THEN SubSeq(response, 1, Min(i - 1, Len(response)))
    ELSE IF loop = "manual" /\ pc = "got_response" THEN <<>>
    ELSE response

\* every request stands for at most one invocation, and a handled request
\* for as many as it is due
C21_Inv ==
    /\ \A e \in 1..Len(toolLog) : Invocations(toolLog[e].call_id) = 1
    /\ \A k \in 1..Len(conversation) :
          conversation[k].type = "function_call" =>
              Invocations(conversation[k].call_id) = DueInvocations(conversation[k])
    /\ \A k \in 1..Len(takenUp) :
          takenUp[k].type = "function_call" =>
              Invocations(takenUp[k].call_id) = DueInvocations(takenUp[k])

\* a tool is called only for the item of the current response the for loop
\* is at, and only if no call was made for that request before
C21_Step ==
    toolLog' # toolLog =>
        \/ /\ pc = "invoke"
           /\ i <= Len(response)
           /\ response[i].type = "function_call"
           /\ DueInvocations(response[i]) = 1
           /\ Invocations(response[i].call_id) = 0
           /\ toolLog' = Append(toolLog, [ev |-> "start",
                                          call_id |-> response[i].call_id])
        \/ /\ pc = "tool_running"
           /\ Len(toolLog') = Len(toolLog) + 1
           /\ SubSeq(toolLog', 1, Len(toolLog)) = toolLog
           /\ toolLog'[Len(toolLog')].ev # "start"
           /\ i' = i + 1

\* C21: over a whole run every function call received causes at most one
\* call of a registered tool: exactly one when the tool is registered and
\* the arguments parse, none otherwise; no request is executed a second
\* time, neither in its own round nor in a later one.
C21_AtMostOneInvocation == []C21_Inv /\ [][C21_Step]_vars

\* two rounds with three requests in all, one of them with arguments that
\* do not parse: two tool calls were made, one per round
C21_Witness ==
    /\ loop = "manual"
    /\ pc = "loop_test"
    /\ turnCalls = 2
    /\ Len(OfType(conversation, "function_call")) = 3
    /\ \E k \in 1..Len(conversation) :
          conversation[k].type = "function_call" /\ ~Parses(conversation[k])
    /\ Len(SelectSeq(toolLog, LAMBDA e : e.ev = "start")) = 2
    /\ toolLog[1].call_id # toolLog[3].call_id

\* what the round before the failed create had to append: the reasoning
\* items of its response, its function calls each with its output, its
\* messages
previousRound ==
    reasoning \o Interleaved(function_calls, intermediate_messages) \o messages

\* the last n items of seq
LastItems(seq, n) == SubSeq(seq, Len(seq) - n + 1, Len(seq))

\* C22: when create has failed in the manual loop, in whatever round, the
\* conversation is exactly the input of the failed call; every
\* function_call in it has its function_call_output, and it ends with the
\* user message (first round) or with the whole of what the round before
\* appended (later rounds): no round is left half appended.
C22_ConversationAtFailure ==
    (loop = "manual" /\ pc = "failed") =>
        /\ conversation = input
        /\ WellPaired(conversation)
        /\ \A a \in 1..Len(conversation) :
              conversation[a].type = "function_call" =>
                  /\ a < Len(conversation)
                  /\ conversation[a + 1].type = "function_call_output"
                  /\ conversation[a + 1].call_id = conversation[a].call_id
        /\ IF turnCalls = 1
              THEN conversation[Len(conversation)] = UserMessage(msgIdx)
              ELSE /\ Len(function_calls) > 0
                   /\ Len(intermediate_messages) = Len(function_calls)
                   /\ Len(conversation) > Len(previousRound)
                   /\ LastItems(conversation, Len(previousRound)) = previousRound

\* the create of the second round failed after a round that appended a
\* reasoning item, a function call and its output
C22_Witness ==
    /\ loop = "manual"
    /\ pc = "failed"
    /\ turnCalls = 2
    /\ Len(conversation) = 4
    /\ conversation[2].type = "reasoning"
    /\ conversation[3].type = "function_call"
    /\ conversation[4].type = "function_call_output"

\* the user messages of conv, in order
UserMessagesOf(conv) == SelectSeq(conv, LAMBDA x : x.role = "user")

\* the ids of the items of conv that came from the endpoint
ReceivedIn(conv) ==
    {conv[a].id : a \in {b \in 1..Len(conv) :
                            /\ conv[b].role # "user"
                            /\ conv[b].type # "function_call_output"}}

\* the first create for a user message is waiting for its answer
FirstSubmission == loop = "manual" /\ pc = "awaiting" /\ turnCalls = 1

\* the conversation holds the user messages taken so far, in order, none
\* of them right after a function call; the first create for a user
\* message carries the whole history: every item the endpoint has sent, an
\* output for every function call, and the new user message last
C23_Inv ==
    /\ loop = "manual" =>
          /\ UserMessagesOf(conversation) = [k \in 1..msgIdx |-> UserMessage(k)]
          /\ \A a \in 2..Len(conversation) :
                conversation[a].role = "user" =>
                    /\ conversation[a - 1].type # "function_call"
                    /\ WellPaired(SubSeq(conversation, 1, a - 1))
    /\ FirstSubmission =>
          /\ input = conversation
          /\ input[Len(input)] = UserMessage(msgIdx)
          /\ ReceivedIn(input) = 1..(nextId - 1)
          /\ WellPaired(input)

\* a user message is added only from Done (or at the very start), at the
\* end of the conversation, which keeps all it held
C23_Step ==
    (loop = "manual" /\ UserMessagesOf(conversation') # UserMessagesOf(conversation)) =>
        /\ pc = "for_message"
        /\ msgIdx = 0 \/ ControlState = "Done"
        /\ msgIdx > 0 => Len(function_calls) = 0
        /\ conversation' = Append(conversation, UserMessage(msgIdx + 1))

\* C23: the next user message is appended only once the loop for the one
\* before is Done; the conversation keeps all earlier items, no user
\* message stands between a function call and its output, and the first
\* create for every user message submits the whole history of the
\* messages before it.
C23_MessagesInSequence == []C23_Inv /\ [][C23_Step]_vars

\* the first create for the second user message carries a tool round and
\* the answer of the first
C23_Witness ==
    /\ FirstSubmission
    /\ msgIdx = 2
    /\ Len(input) = 6
    /\ input[2].type = "function_call"
    /\ input[3].type = "function_call_output"
    /\ input[4].type = "message"
    /\ input[5].type = "message"
    /\ input[6] = UserMessage(2)

\* the loop for a user message (in the previous_response_id loop: for the
\* one question) is about to make its first create
LoopEntered == pc = "create" /\ turnCalls = 0

\* C24: if no create call fails, then, every create call and every tool
\* call coming back and the endpoint sending function calls in finitely
\* many of its responses only, the loop entered for a user message reaches
\* Done: it neither stops on the way nor fails in a round before the one
\* without function calls.
C24_LoopReachesDone ==
    [](pc # "failed") => (LoopEntered ~> (ControlState = "Done"))

\* the loop for the second user message is Done after a tool round, the
\* first having been Done before
C24_Witness ==
    /\ loop = "manual"
    /\ msgIdx = 2
    /\ ControlState = "Done"
    /\ pc = "for_message"
    /\ turnCalls = 2
    /\ toolLog # <<>>
    /\ error = "none"

\* the items of a sequence of responses, in order
RECURSIVE Flatten(_)
Flatten(rs) == IF rs = <<>> THEN <<>> ELSE Head(rs) \o Flatten(Tail(rs))

\* the function calls among `items` for which a tool is to be called
DueCalls(items) ==
    SelectSeq(items, LAMBDA x : x.type = "function_call" /\ DueInvocations(x) = 1)

\* the call_ids of `items`, in order
CallIds(items) == [k \in 1..Len(items) |-> items[k].call_id]

\* the items received for the current user message that the loop has
\* taken up: all of the earlier responses, and of the latest what the for
\* loop of invoke_functions_from_response has passed
handledItems ==
    IF received = <<>> THEN <<>>
    ELSE Flatten(SubSeq(received, 1, Len(received) - 1)) \o takenUp

\* the tool calls made for requests of the current user message
startsOfLoop ==
    SelectSeq(toolLog,
              LAMBDA e : /\ e.ev = "start"
                         /\ \E k \in 1..Len(Flatten(received)) :
                               /\ Flatten(received)[k].type = "function_call"
                               /\ Flatten(received)[k].call_id = e.call_id)

\* the output the request `call` gets, told from what toolLog says of it
ResultOf(call) ==
    IF ~Registered(call) THEN NoToolRegistered(call)
    ELSE IF ~Parses(call) THEN ErrorExecuting(call)
    ELSE LET e == CHOOSE k \in 1..Len(toolLog) :
                      toolLog[k].ev # "start" /\ toolLog[k].call_id = call.call_id
         IN  IF toolLog[e].ev = "returned" THEN ToolText(call, e - 1)
                                           ELSE ErrorExecuting(call)

\* the outputs due for the function calls of the latest response
ResultsOfRound ==
    [k \in 1..Len(function_calls) |->
        FunctionCallOutput(function_calls[k], ResultOf(function_calls[k]))]

\* C25: both loops are the same function of the endpoint's responses.  In
\* either loop the tool calls made are those due for the requests received,
\* in the order received; the outputs of a round are those due for its
\* requests (appended to the conversation in one loop, submitted as the
\* next input in the other); the loop goes on after a response exactly if
\* it holds a function call and is left after the first that holds none.
C25_LoopsAgree ==
    /\ received # <<>> => response = received[Len(received)]
    /\ turnCalls = Len(received) + (IF pc \in {"awaiting", "failed"} THEN 1 ELSE 0)
    /\ CallIds(startsOfLoop) = CallIds(DueCalls(handledItems))
    /\ RoundHandled => intermediate_messages = ResultsOfRound
    /\ (loop = "manual" /\ pc \in {"messages", "loop_test"}) =>
          OfType(appended, "function_call_output") = ResultsOfRound
    /\ (loop = "previous_response_id" /\ pc = "awaiting" /\ turnCalls > 1) =>
          input = ResultsOfRound
    /\ \A k \in 1..(Len(received) - 1) :
          OfType(received[k], "function_call") # <<>>
    /\ (pc \in {"create", "awaiting", "failed"} /\ received # <<>>) =>
          Len(function_calls) > 0
    /\ (ControlState = "Done" /\ received # <<>>) => Len(function_calls) = 0

\* the previous_response_id loop is left in its second round, after a
\* round with two requests of which one got a diagnostic
C25_Witness ==
    /\ loop = "previous_response_id"
    /\ pc = "finished"
    /\ Len(received) = 2
    /\ Len(OfType(received[1], "function_call")) = 2
    /\ Len(startsOfLoop) = 1
    /\ Len(messages) = 1

====
